---- MODULE Spec2Model ----
(***************************************************************************)
(* A model of fastbt/options/payoff.py: the OptionContract record with its *)
(* premium validator and expiry valuation, and the OptionPayoff book that  *)
(* aggregates contracts into net positions and payoffs.                    *)
(*                                                                         *)
(* Prices (strike, premium, spot, values, payoffs) are counted in halves:  *)
(* the integer 3 stands for 1.5.  Every price of the model is a dyadic     *)
(* rational of small magnitude, for which Python's float arithmetic is     *)
(* exact, so integer arithmetic on halves computes what the code computes. *)
(* Quantities, sides and the lot size are plain integers.                  *)
(***************************************************************************)
EXTENDS Integers, Sequences, FiniteSets

VARIABLES spot, lot_size, options, call

vars == <<spot, lot_size, options, call>>

(***************************************************************************)
(* Bounds and input sets                                                   *)
(***************************************************************************)
\* longest contract list the book is grown to
MaxLen == 2

\* class Opt(str, Enum)
CALL == "c"
PUT == "p"
FUTURE == "f"
HOLDING == "h"
Opt == {CALL, PUT, FUTURE, HOLDING}

\* class Side(Enum)
BUY == 1
SELL == -1
Side == {BUY, SELL}

\* inputs of the book specification (halves: 2 is 1.0, 3 is 1.5)
Strikes == {2, 3}
Premiums == {0, 1}
Quantities == {2}
DefaultSpots == {0, 3}
LotSizes == {1, 2}
Spots == {0, 1, 4}
SimLists == {<<>>, <<4>>, <<0, 4>>, <<4, 0>>}

\* inputs of the contract specification
CStrikes == {-3, 0, 2, 3, 5}
CPremiums == {-1, 0, 2}
CQuantities == {-1, 1, 2}
CSpots == {-2, 0, 1, 4, 7}

(***************************************************************************)
(* OptionContract                                                          *)
(***************************************************************************)
\* Python's int() on a number: truncation toward zero (on halves).
int_of_float(v) ==
    IF v >= 0 THEN v - (v % 2) ELSE -((-v) - ((-v) % 2))

\* strike: Union[int, float] -- pydantic 1.x tries the members of a Union
\* left to right and the int member accepts a float by int(v).
coerce_strike(v) == int_of_float(v)

\* the validator with the PUT left out of the test
premium_check_bad(values) ==
    IF values.option \in {CALL}
    THEN values.premium = 0
    ELSE FALSE

\* the root validator: TRUE when it raises ValueError

premium_check(values) ==
    IF values.option \in {CALL, PUT}
    THEN values.premium = 0
    ELSE FALSE

\* construction that never runs the root validator
OptionContract_bad(strike, option, side, premium, quantity) ==
    [raised |-> FALSE,
     value |-> [strike |-> coerce_strike(strike), option |-> option,
                side |-> side, premium |-> premium, quantity |-> quantity]]

\* OptionContract(strike=, option=, side=, premium=, quantity=):
\* field coercion, then the root validator.
OptionContract(strike, option, side, premium, quantity) ==
    LET values == [strike |-> coerce_strike(strike), option |-> option,
                   side |-> side, premium |-> premium, quantity |-> quantity]
    IN [raised |-> premium_check(values), value |-> values]

Max(a, b) == IF a >= b THEN a ELSE b

value(self, s) ==
    IF self.option = CALL THEN Max(s - self.strike, 0)
    ELSE IF self.option = PUT THEN Max(self.strike - s, 0)
    ELSE s - self.strike

\* the premium subtracted from every kind of contract
net_value_bad(self, s) ==
    LET val == value(self, s)
    IN (val - self.premium) * self.side * self.quantity

net_value(self, s) ==
    LET val == value(self, s)
    IN IF self.option \in {CALL, PUT}
       THEN (val - self.premium) * self.side * self.quantity
       ELSE val * self.side * self.quantity

(***************************************************************************)
(* OptionPayoff                                                            *)
(***************************************************************************)
\* collections.Counter: a mapping whose missing keys read as 0
Counter == [k \in {} |-> 0]
CounterGet(positions, k) == IF k \in DOMAIN positions THEN positions[k] ELSE 0
CounterAdd(positions, k, q) ==
    [x \in (DOMAIN positions) \cup {k} |->
        IF x = k THEN CounterGet(positions, k) + q ELSE positions[x]]

RECURSIVE net_positions_loop(_, _, _, _)
net_positions_loop(opts, lot, i, positions) ==
    IF i > Len(opts) THEN positions
    ELSE LET contract == opts[i]
             quantity == contract.quantity * contract.side * lot
         IN net_positions_loop(opts, lot, i + 1,
                               CounterAdd(positions, contract.option, quantity))

\* the lot size left out of the accumulated quantity
net_positions_bad(opts, lot) == net_positions_loop(opts, 1, 1, Counter)

net_positions(opts, lot) == net_positions_loop(opts, lot, 1, Counter)

\* short futures counted as naked as well
has_naked_positions_bad(opts, lot) ==
    LET positions == net_positions(opts, lot)
    IN IF CounterGet(positions, CALL) < 0 THEN TRUE
       ELSE IF CounterGet(positions, PUT) < 0 THEN TRUE
       ELSE IF CounterGet(positions, FUTURE) < 0 THEN TRUE
       ELSE FALSE

has_naked_positions(opts, lot) ==
    LET positions == net_positions(opts, lot)
    IN IF CounterGet(positions, CALL) < 0 THEN TRUE
       ELSE IF CounterGet(positions, PUT) < 0 THEN TRUE
       ELSE FALSE

\* sum([...]) over a list built left to right
RECURSIVE sum(_)
sum(xs) == IF xs = <<>> THEN 0 ELSE xs[1] + sum(Tail(xs))

\* payoff(spot=None): arg is <<>> when the caller passes no spot and <<s>>
\* when the caller passes s.  `not spot` holds of None and of a zero.
payoff(opts, default, lot, arg) ==
    LET s == IF arg = <<>> \/ arg[1] = 0 THEN default ELSE arg[1]
    IN IF Len(opts) = 0 THEN 0
       ELSE sum([i \in 1..Len(opts) |-> net_value(opts[i], s) * lot])

RECURSIVE simulate_loop(_, _, _, _, _)
simulate_loop(opts, default, lot, prices, out) ==
    IF prices = <<>> THEN out
    ELSE simulate_loop(opts, default, lot, Tail(prices),
                       Append(out, payoff(opts, default, lot, <<prices[1]>>)))

\* the first price skipped
simulate_bad(opts, default, lot, prices) ==
    IF prices = <<>> THEN <<>>
    ELSE simulate_loop(opts, default, lot, Tail(prices), <<>>)

simulate(opts, default, lot, prices) ==
    simulate_loop(opts, default, lot, prices, <<>>)

(***************************************************************************)
(* The book as a state machine: one action per method call.  `call` holds  *)
(* the most recent call: its name, arguments, result and whether it raised.*)
(***************************************************************************)
NoCall == [op |-> "new", args |-> <<>>, ret |-> <<>>, raised |-> FALSE]

Returned(op, args, ret) == [op |-> op, args |-> args, ret |-> ret, raised |-> FALSE]
Raised(op, args) == [op |-> op, args |-> args, ret |-> <<>>, raised |-> TRUE]

\* the contracts a caller can hold: the results of successful construction
Contracts ==
    {r.value : r \in {x \in {OptionContract(k, o, sd, p, q) :
                                k \in Strikes, o \in Opt, sd \in Side,
                                p \in Premiums, q \in Quantities} : ~x.raised}}

\* OptionPayoff(spot=, lot_size=)
Init ==
    /\ spot \in DefaultSpots
    /\ lot_size \in LotSizes
    /\ options = <<>>
    /\ call = NoCall

\* the contract put at the front of the list
CallAdd_bad ==
    \E contract \in Contracts :
        /\ Len(options) < MaxLen
        /\ options' = <<contract>> \o options
        /\ call' = Returned("add", <<contract>>, <<>>)
        /\ UNCHANGED <<spot, lot_size>>

CallAdd ==
    \E contract \in Contracts :
        /\ Len(options) < MaxLen
        /\ options' = Append(options, contract)
        /\ call' = Returned("add", <<contract>>, <<>>)
        /\ UNCHANGED <<spot, lot_size>>

CallAddContract ==
    \E strike \in Strikes, opt_type \in Opt, side \in Side,
       premium \in Premiums, qty \in Quantities :
        LET contract == OptionContract(strike, opt_type, side, premium, qty)
            args == <<strike, opt_type, side, premium, qty>>
        IN /\ Len(options) < MaxLen
           /\ IF contract.raised
              THEN /\ options' = options
                   /\ call' = Raised("add_contract", args)
              ELSE /\ options' = Append(options, contract.value)
                   /\ call' = Returned("add_contract", args, <<>>)
           /\ UNCHANGED <<spot, lot_size>>

\* only the oldest contract dropped
CallClear_bad ==
    /\ options' = IF options = <<>> THEN <<>> ELSE Tail(options)
    /\ call' = Returned("clear", <<>>, <<>>)
    /\ UNCHANGED <<spot, lot_size>>

CallClear ==
    /\ options' = <<>>
    /\ call' = Returned("clear", <<>>, <<>>)
    /\ UNCHANGED <<spot, lot_size>>

CallNetPositions ==
    /\ call' = Returned("net_positions", <<>>, net_positions(options, lot_size))
    /\ UNCHANGED <<spot, lot_size, options>>

CallHasNakedPositions ==
    /\ call' = Returned("has_naked_positions", <<>>,
                        has_naked_positions(options, lot_size))
    /\ UNCHANGED <<spot, lot_size, options>>

PayoffArgs == {<<>>} \cup {<<s>> : s \in Spots}

CallPayoff ==
    \E arg \in PayoffArgs :
        /\ call' = Returned("payoff", arg, payoff(options, spot, lot_size, arg))
        /\ UNCHANGED <<spot, lot_size, options>>

CallSimulate ==
    \E prices \in SimLists :
        /\ call' = Returned("simulate", <<prices>>,
                            simulate(options, spot, lot_size, prices))
        /\ UNCHANGED <<spot, lot_size, options>>

Next ==
    \/ CallAdd
    \/ CallAddContract
    \/ CallClear
    \/ CallNetPositions
    \/ CallHasNakedPositions
    \/ CallPayoff
    \/ CallSimulate

Spec == Init /\ [][Next]_vars

(***************************************************************************)
(* The contract alone: construction and valuation over wider inputs.       *)
(***************************************************************************)
InitContract ==
    /\ spot = 0
    /\ lot_size = 1
    /\ options = <<>>
    /\ call = NoCall

CallOptionContract ==
    \E strike \in CStrikes, option \in Opt, side \in Side,
       premium \in CPremiums, quantity \in CQuantities :
        LET contract == OptionContract(strike, option, side, premium, quantity)
            args == <<strike, option, side, premium, quantity>>
        IN /\ call' = IF contract.raised
                      THEN Raised("OptionContract", args)
                      ELSE Returned("OptionContract", args, contract.value)
           /\ UNCHANGED <<spot, lot_size, options>>

\* contract.value(spot) / contract.net_value(spot) on the contract the
\* previous call constructed
CallValue ==
    \E s \in CSpots :
        /\ call.op = "OptionContract" /\ ~call.raised
        /\ call' = Returned("value", <<call.ret, s>>, value(call.ret, s))
        /\ UNCHANGED <<spot, lot_size, options>>

CallNetValue ==
    \E s \in CSpots :
        /\ call.op = "OptionContract" /\ ~call.raised
        /\ call' = Returned("net_value", <<call.ret, s>>, net_value(call.ret, s))
        /\ UNCHANGED <<spot, lot_size, options>>

NextContract ==
    \/ CallOptionContract
    \/ CallValue
    \/ CallNetValue

SpecContract == InitContract /\ [][NextContract]_vars

(***************************************************************************)
(* Properties                                                              *)
(***************************************************************************)
SideSign(sd) == IF sd = BUY THEN 1 ELSE -1

\* the sum of net_value(s) over a contract list
RECURSIVE TotalNetValue(_, _)
TotalNetValue(opts, s) ==
    IF opts = <<>> THEN 0
    ELSE net_value(opts[1], s) + TotalNetValue(Tail(opts), s)

\* the sum of quantity * side_sign over the contracts of kind k
RECURSIVE SignedQuantity(_, _)
SignedQuantity(opts, k) ==
    IF opts = <<>> THEN 0
    ELSE (IF opts[1].option = k THEN opts[1].quantity * SideSign(opts[1].side) ELSE 0)
         + SignedQuantity(Tail(opts), k)

IsOption(c) == c.option \in {CALL, PUT}

Queries == {"payoff", "simulate", "net_positions", "has_naked_positions"}

\* C1: on a nonempty book, payoff(spot) with a spot supplied by the caller is
\* lot_size times the sum of net_value at the supplied spot; the default
\* spot is used only when no spot is supplied.
C1_PayoffAtSuppliedSpot ==
    (call.op = "payoff" /\ options # <<>>) =>
        LET s == IF call.args = <<>> THEN spot ELSE call.args[1]
        IN call.ret = lot_size * TotalNetValue(options, s)

\* C2: net_value(s) is (max(s-k,0) - p) * q * side_sign for a CALL,
\* (max(k-s,0) - p) * q * side_sign for a PUT and (s-k) * q * side_sign for a
\* FUTURE or HOLDING, whatever the premium.
C2_NetValueFormula ==
    call.op = "net_value" =>
        LET c == call.args[1]
            s == call.args[2]
            k == c.strike
            p == c.premium
            q == c.quantity
            sign == SideSign(c.side)
        IN call.ret = CASE c.option = CALL -> (Max(s - k, 0) - p) * q * sign
                        [] c.option = PUT -> (Max(k - s, 0) - p) * q * sign
                        [] OTHER -> (s - k) * q * sign

\* a short future with a nonzero premium has been valued at a nonzero amount
C2_Witness ==
    /\ call.op = "net_value"
    /\ call.args[1].option = FUTURE
    /\ call.args[1].premium # 0
    /\ call.args[1].side = SELL
    /\ call.ret > 0

\* C3: construction raises exactly when the kind is CALL or PUT and the
\* premium is 0.0; any other contract is constructed.
C3_ConstructionFailsExactlyOnZeroPremiumOption ==
    call.op = "OptionContract" =>
        (call.raised <=> (call.args[2] \in {CALL, PUT} /\ call.args[4] = 0))

\* a PUT with a negative premium has been constructed
C3_Witness ==
    /\ call.op = "OptionContract"
    /\ ~call.raised
    /\ call.args[2] = PUT
    /\ call.args[4] < 0

\* C4: net_positions[K] is lot_size times the sum of quantity * side_sign
\* over the held contracts of kind K, and a kind not held reads as 0.
C4_NetPositions ==
    call.op = "net_positions" =>
        \A k \in Opt :
            CounterGet(call.ret, k) = lot_size * SignedQuantity(options, k)

\* net short calls at lot size 2 with no holding in the book
C4_Witness ==
    /\ call.op = "net_positions"
    /\ lot_size = 2
    /\ CounterGet(call.ret, CALL) < 0
    /\ HOLDING \notin DOMAIN call.ret
    /\ CounterGet(call.ret, HOLDING) = 0

\* C5: has_naked_positions is true iff net_positions[CALL] < 0 or
\* net_positions[PUT] < 0; FUTURE and HOLDING contracts never change it.
C5_NakedIffShortOption ==
    call.op = "has_naked_positions" =>
        /\ call.ret = (\/ lot_size * SignedQuantity(options, CALL) < 0
                       \/ lot_size * SignedQuantity(options, PUT) < 0)
        /\ call.ret = has_naked_positions(SelectSeq(options, IsOption), lot_size)

\* a book holding a call whose only net-short exposure is a future reports
\* FALSE
C5_Witness ==
    /\ call.op = "has_naked_positions"
    /\ call.ret = FALSE
    /\ SignedQuantity(options, FUTURE) < 0
    /\ \E i \in 1..Len(options) : options[i].option = CALL

\* C6: simulate returns a list as long as its input whose i-th element is
\* payoff of the i-th spot on the same book; the empty list gives the
\* empty list.
C6_SimulateIsPayoffElementwise ==
    call.op = "simulate" =>
        LET prices == call.args[1]
        IN /\ Len(call.ret) = Len(prices)
           /\ \A i \in 1..Len(prices) :
                call.ret[i] = payoff(options, spot, lot_size, <<prices[i]>>)

\* two different payoffs have been simulated on a nonempty book
C6_Witness ==
    /\ call.op = "simulate"
    /\ options # <<>>
    /\ Len(call.args[1]) = 2
    /\ call.ret[1] # call.ret[2]

\* C7: payoff on a book that is empty, or that has just been cleared,
\* returns 0 for a supplied spot and for the default spot.
C7_EmptyBookPaysZero ==
    [][(call'.op = "payoff" /\ (options = <<>> \/ call.op = "clear"))
        => call'.ret = 0]_vars

\* payoff at a nonzero default spot on an empty book
C7_Witness ==
    /\ call.op = "payoff"
    /\ call.args = <<>>
    /\ spot # 0
    /\ options = <<>>
    /\ call.ret = 0

\* C8: add_contract raises and leaves the book as it was when the kind is
\* CALL or PUT and the premium is 0.0; otherwise it appends exactly one
\* contract with the given strike, kind, side, premium and quantity.
C8_AddContractAllOrNothing ==
    [][call'.op = "add_contract" =>
        LET a == call'.args
        IN /\ UNCHANGED <<spot, lot_size>>
           /\ IF a[2] \in {CALL, PUT} /\ a[4] = 0
              THEN call'.raised /\ options' = options
              ELSE /\ ~call'.raised
                   /\ options' = Append(options,
                         [strike |-> a[1], option |-> a[2], side |-> a[3],
                          premium |-> a[4], quantity |-> a[5]])]_vars

\* C9: the book starts empty; add and a successful add_contract extend the
\* list by one at the end, nothing but clear shortens it, clear empties it
\* and the queries leave it as it was.
C9_Lifecycle ==
    /\ options = <<>>
    /\ [][/\ call'.op = "add" => options' = Append(options, call'.args[1])
          /\ (call'.op = "add_contract" /\ ~call'.raised) =>
                /\ Len(options') = Len(options) + 1
                /\ SubSeq(options', 1, Len(options)) = options
          /\ (call'.op = "add_contract" /\ call'.raised) => options' = options
          /\ call'.op = "clear" => options' = <<>>
          /\ call'.op \in Queries => options' = options
          /\ Len(options') < Len(options) => call'.op = "clear"]_vars

\* two different contracts are held after an add
C9_Witness ==
    /\ call.op = "add"
    /\ Len(options) = 2
    /\ options[1] # options[2]
    /\ options[2] = call.args[1]

\* C10: every held CALL or PUT has a premium different from 0.0.
C10_HeldOptionsHavePremium ==
    \A i \in 1..Len(options) :
        options[i].option \in {CALL, PUT} => options[i].premium # 0

\* a call is held next to a future of premium 0.0
C10_Witness ==
    /\ \E i \in 1..Len(options) : options[i].option = CALL
    /\ \E i \in 1..Len(options) :
        options[i].option = FUTURE /\ options[i].premium = 0

====
